---- MODULE Spec2Model ----
(***************************************************************************)
(* ShadPKG: the PKG class of core/file_format/pkg.cpp (Open, Extract,      *)
(* ExtractFiles, ExtractAllFilesWithProgress) as a state machine over one  *)
(* PKG file on disk and one output tree, the two versions of main() that   *)
(* drive it, and the HandleTable of core/file_sys/fs.cpp.                  *)
(*                                                                         *)
(* Abstractions.                                                           *)
(*  - A byte of the PKG file is the tag FileByte(p) of its position, so    *)
(*    that two different byte ranges never compare equal by accident; 0 is *)
(*    the value of a byte the program never read (a zero-filled vector).   *)
(*  - The u64 fields of the header are U64Bits wide instead of 64 (TLC's   *)
(*    integers are 32 bit); the sum of two of them wraps at U64Mod as the  *)
(*    sum of two u64 wraps at 2^64.                                        *)
(*  - Keys and cipher texts are symbolic: a key is the record of what it   *)
(*    was derived from.                                                    *)
(***************************************************************************)
EXTENDS Integers, Sequences, FiniteSets, TLC

VARIABLES
    pkg,          \* the PKG file on disk: [exists, size, header, tablePos, table,
                  \* titleId, pfs]
    pc,           \* position of the caller / of PKG::Extract
    failreason,   \* the caller's std::string failreason
    openRet,      \* what PKG::Open returned: "none" (not called), "true", "false"
    extractRet,   \* what PKG::Extract returned
    pkgSize,      \* PKG::pkgSize
    pkgheader,    \* PKG::pkgheader
    pkgEntries,   \* PKG::pkgEntries
    sfo,          \* PKG::sfo
    file_pos,     \* read position of Extract's local IOFile file
    i,            \* Extract's entry loop counter
    dk3_,         \* PKG::dk3_
    ivKey,        \* PKG::ivKey
    imgKey,       \* PKG::imgKey
    ekpfsKey,     \* PKG::ekpfsKey
    dataKey,      \* PKG::dataKey
    tweakKey,     \* PKG::tweakKey
    extract_path, \* PKG::extract_path
    pkgTitleID,   \* PKG::pkgTitleID
    pfsc_offset,  \* PKG::pfsc_offset
    sectorMap,    \* PKG::sectorMap
    iNodeBuf,     \* PKG::iNodeBuf
    fsTable,      \* PKG::fsTable
    extractPaths, \* PKG::extractPaths: inode number -> host path
    current_dir,  \* PKG::current_dir
    walk,         \* the locals of Extract's block loop
    next_file,    \* the caller's loop counter over ExtractFiles(index)
    dirs,         \* the output tree: the directories created
    disk,         \* the output tree: path -> content of the file
    main,         \* the command-line program: its arguments, the processor count,
                  \* which of the two main() it is, its workers, its exit code
    first_tree,   \* the output tree of a first extraction, when there was one
    m_files,      \* HandleTable::m_files: the File* of every slot, 0 for nullptr
    call,         \* the last call on the HandleTable, its argument and its result
    stream        \* the offsets of one block read of ExtractFiles' block loop

vars == <<pkg, pc, failreason, openRet, extractRet, pkgSize, pkgheader, pkgEntries,
          sfo, file_pos, i, dk3_, ivKey, imgKey, ekpfsKey, dataKey, tweakKey,
          extract_path, pkgTitleID, pfsc_offset, sectorMap, iNodeBuf, fsTable,
          extractPaths, current_dir, walk, next_file, dirs, disk, main, first_tree,
          m_files, call, stream>>

\* What only the callers of the PKG object write.
callerVars == <<main, first_tree, m_files, call, stream>>

\* What no step of the PKG class or of main() touches.
libVars == <<m_files, call, stream>>

(***************************************************************************)
(* Bounds of the model.                                                    *)
(***************************************************************************)
MaxEntries == 2     \* longest entry table of a modelled PKG
U64Bits == 28       \* modelled width of a u64
U32Bits == 24       \* modelled width of a u32

U64Mod == 2 ^ U64Bits
U32Mod == 2 ^ U32Bits

(***************************************************************************)
(* Program constants.                                                      *)
(***************************************************************************)
PkgMagic == 2135117396          \* 0x7F434E54
EntryStride == 32               \* six u32 fields and 8 skipped bytes
SeedOffset == 880               \* 0x370

ID_ENTRY_KEYS == 16             \* 0x10
ID_IMAGE_KEY == 32              \* 0x20
ID_NPTITLE == 1024              \* 0x400, first NPDRM id
ID_NPBIND == 1027               \* 0x403, last NPDRM id
ID_PARAM_SFO == 4096            \* 0x1000

BlockSize == 65536              \* 0x10000, a logical block of the PFSC
InodeSize == 168                \* 0xA8
FirstPfscOffset == 131072       \* 0x20000, where GetPFSCOffset starts
NotFound == -1                  \* GetPFSCOffset's return -1

PFS_FILE == 2
PFS_DIR == 3
PFS_CURRENT_DIR == 4
PFS_PARENT_DIR == 5

Min(a, b) == IF a < b THEN a ELSE b

(***************************************************************************)
(* Common::FS::IOFile on the PKG file.                                     *)
(***************************************************************************)
\* The byte of the file at position p.
FileByte(p) == p + 1

\* IOFile::Seek(offset) from the start of a file of `size` bytes: fails past its end.
SeekOk(size, offset) == offset >= 0 /\ offset <= size

\* IOFile::ReadRaw into a zero-filled vector of n bytes: a short read leaves zeros.
ReadRaw(f, offset, n) ==
    [k \in 1..n |-> IF offset + k - 1 < f.size THEN FileByte(offset + k - 1) ELSE 0]

ZeroEntry == [id |-> 0, offset |-> 0, size |-> 0]

\* Whether position p is the start of an entry of the file's entry table.
InTable(f, p) ==
    /\ p >= f.tablePos
    /\ (p - f.tablePos) % EntryStride = 0
    /\ (p - f.tablePos) \div EntryStride < Len(f.table)

\* PKGEntry entry{} followed by the six file.Read(entry.<field>) at position p:
\* a table entry inside the table, nothing (entry stays zero) at the end of the
\* file, and elsewhere whatever bytes lie there (each field the tag of its first
\* byte; of the size only the two low bits, which keeps the dumped file short).
ReadEntry(f, p) ==
    IF InTable(f, p) THEN f.table[((p - f.tablePos) \div EntryStride) + 1]
    ELSE IF p >= f.size THEN ZeroEntry
    ELSE [id |-> FileByte(p), offset |-> FileByte(p + 16), size |-> FileByte(p + 20) % 4]

\* file.Tell() after the six reads and file.Seek(8, CurrentPosition).
AfterEntry(f, p) ==
    IF p + EntryStride <= f.size THEN p + EntryStride ELSE Min(p + EntryStride - 8, f.size)

(***************************************************************************)
(* Names.                                                                  *)
(***************************************************************************)
\* GetEntryNameByType: the static id -> file name table; "" for an unknown id.
GetEntryNameByType(id) ==
    CASE id = 1 -> "digests"
      [] id = ID_ENTRY_KEYS -> "entry_keys"
      [] id = ID_IMAGE_KEY -> "image_key"
      [] id = 128 -> "general_digests"
      [] id = 1024 -> "license.dat"
      [] id = 1025 -> "license.info"
      [] id = 1026 -> "nptitle.dat"
      [] id = 1027 -> "npbind.dat"
      [] id = ID_PARAM_SFO -> "param.sfo"
      [] OTHER -> ""

Digits == <<"0", "1", "2", "3", "4", "5", "6", "7", "8", "9",
            "a", "b", "c", "d", "e", "f">>

RECURSIVE ToBase(_, _)
\* The digits of n >= 0 in base b, most significant first.
ToBase(n, b) ==
    IF n < b THEN Digits[n + 1] ELSE ToBase(n \div b, b) \o Digits[(n % b) + 1]

\* std::to_string of an unsigned value.
to_string(n) == ToBase(n, 10)

\* operator<< under std::hex (lower case, no prefix).
ToHex(n) == ToBase(n, 16)

(***************************************************************************)
(* std::filesystem::path: absolute or relative, and a sequence of names.   *)
(***************************************************************************)
Path(abs, parts) == [abs |-> abs, parts |-> parts]

\* A default-constructed path.
EmptyPath == Path(FALSE, <<>>)

\* operator/ : an absolute right-hand side replaces the left-hand side.
Join(a, b) == IF b.abs THEN b ELSE Path(a.abs, a.parts \o b.parts)

\* path::parent_path()
ParentPath(a) == IF a.parts = <<>> THEN a ELSE Path(a.abs, SubSeq(a.parts, 1, Len(a.parts) - 1))

\* path::filename()
FileName(a) == IF a.parts = <<>> THEN "" ELSE a.parts[Len(a.parts)]

\* extract_path / "sce_sys" / name
SceSysPath(out, name) == Join(out, Path(FALSE, <<"sce_sys", name>>))

(***************************************************************************)
(* Symbolic crypto: a key is the record of what it was computed from.      *)
(***************************************************************************)
\* dk3_ before any RSA2048Decrypt wrote it; otherwise dk3_ is the file position
\* the key material was read from.
Underived == -1

NoIv == [set |-> FALSE, entry |-> ZeroEntry, dk3 |-> Underived]

\* Crypto::ivKeyHASH256 over entry bytes || dk3.
IvKeyHASH256(entry, dk3) == [set |-> TRUE, entry |-> entry, dk3 |-> dk3]

NoImg == [set |-> FALSE, iv |-> NoIv, at |-> Underived]

\* Crypto::aesCbcCfb128Decrypt(ivKey, imgkeydata read at position at) followed
\* by Crypto::RSA2048Decrypt(ekpfsKey, imgKey, false).
ImgKeyOf(iv, at) == [set |-> TRUE, iv |-> iv, at |-> at]

NoPfsKey == [set |-> FALSE, ekpfs |-> NoImg, seedAt |-> Underived, part |-> "none"]

\* Crypto::PfsGenCryptoKey: the two halves of HMAC-SHA-256(ekpfs, 1 || seed).
PfsGenCryptoKey(ekpfs, seedAt, part) ==
    [set |-> TRUE, ekpfs |-> ekpfs, seedAt |-> seedAt, part |-> part]

\* A file of the output tree: raw bytes, or their AES-128-CBC decryption under iv.
\* or, for a file of the PFS, the chunks written block by block.
Raw(bytes) == [bytes |-> bytes, dec |-> NoIv, chunks |-> <<>>]
DecryptEntry(iv, bytes) == [bytes |-> bytes, dec |-> iv, chunks |-> <<>>]
Chunks(chunks) == [bytes |-> <<>>, dec |-> NoIv, chunks |-> chunks]

(***************************************************************************)
(* The PKG files of the model.                                             *)
(***************************************************************************)
IsNpdrm(id) == id >= ID_NPTITLE /\ id <= ID_NPBIND

\* An id GetEntryNameByType has no name for (0xBEEF).
UnknownId == 48879

EntryIds == {ID_ENTRY_KEYS, ID_IMAGE_KEY, ID_NPTITLE, ID_PARAM_SFO, UnknownId}

\* The modelled PKG file: its size, where its entry table lies, and the two places
\* of a PFS image (the second so late that the PFS seed lies past the end).
Layout == [size |-> 524288, tablePos |-> 4096, imageAt |-> 65536, lateImageAt |-> 524000]

\* Where a payload may lie in a file of `size` bytes: twice wholly inside it, once
\* across its end, once past its end.
Places(size) == {[offset |-> 4200, size |-> 2], [offset |-> 4300, size |-> 1],
                 [offset |-> size - 1, size |-> 2], [offset |-> size + 1, size |-> 1]}

Entries(size) == {[id |-> id, offset |-> pl.offset, size |-> pl.size] :
                    id \in EntryIds, pl \in Places(size)}

RECURSIVE SeqsUpTo(_, _)
\* The sequences over S of length at most n.
SeqsUpTo(S, n) ==
    IF n = 0 THEN {<<>>}
    ELSE LET shorter == SeqsUpTo(S, n - 1)
         IN  shorter \cup {Append(q, x) : q \in shorter, x \in S}

Header(magic, pkg_size, content_offset, content_size, table_offset, count, pfs_image_offset, pfs_cache_size) ==
    [magic |-> magic, pkg_size |-> pkg_size, pkg_content_offset |-> content_offset,
     pkg_content_size |-> content_size, pkg_table_entry_offset |-> table_offset,
     pkg_table_entry_count |-> count, pfs_image_offset |-> pfs_image_offset,
     pfs_cache_size |-> pfs_cache_size]

ZeroHeader == Header(0, 0, 0, 0, 0, 0, 0, 0)

(***************************************************************************)
(* The PFS image inside the PKG, as its plain text: the offsets at which    *)
(* the decrypted head holds the PFSC magic, the sector map, and the logical *)
(* blocks.  A block is what the walk reads in it: the inode count at 0x30,  *)
(* the inode records before the first one of Mode 0, whether bytes          *)
(* 0x10..0x1e spell flat_path_table, whether byte 0x10 is '.' and bytes     *)
(* 0x28..0x29 are "..", and the dirents a walk by entsize meets.            *)
(***************************************************************************)
Inode(mode, size, blocks, loc) == [Mode |-> mode, Size |-> size, Blocks |-> blocks, loc |-> loc]

Dirent(ino, type, name, entsize) == [ino |-> ino, type |-> type, name |-> name, entsize |-> entsize]

Block(ndinode, inodes, flat, dots, dirents) ==
    [ndinode |-> ndinode, inodes |-> inodes, flat |-> flat, dots |-> dots, dirents |-> dirents]

\* A block of file data: it starts with zero bytes.
DataBlock == Block(0, <<>>, FALSE, FALSE, <<Dirent(0, 0, "", 0)>>)

\* A stored block that inflate() rejects: DecompressPFSC ignores the result.
CorruptBlock == Block(NotFound, <<>>, FALSE, FALSE, <<>>)

\* Whether decompressedData holds the logical block afterwards: a stored block of
\* 0x10000 bytes is copied, a shorter one inflated, a longer one left out.
Loaded(stored, content) ==
    stored = BlockSize \/ (stored < BlockSize /\ content # CorruptBlock)

\* The buffer std::vector<char> decompressedData(0x10000) before any block.
ZeroBlock == DataBlock

RootDirents(extra) ==
    <<Dirent(2, PFS_CURRENT_DIR, ".", 24), Dirent(2, PFS_PARENT_DIR, "..", 24)>>
    \o extra \o
    <<Dirent(3, PFS_FILE, "eboot.bin", 32), Dirent(0, 0, "", 0)>>

\* A PFS of four inodes: the super root, flat_path_table, uroot and uroot/eboot.bin
\* (two blocks, the second of 100 bytes); `extra` are further dirents of uroot.
TreeBlocks(extra) ==
    << Block(4, <<>>, FALSE, FALSE, <<Dirent(0, 0, "", 0)>>),
       Block(0, <<Inode(16749, 65536, 1, 2), Inode(33060, 16, 1, 4),
                  Inode(16749, 65536, 1, 3), Inode(33060, BlockSize + 100, 2, 5)>>,
             FALSE, FALSE, <<Dirent(16749, 0, "", 0)>>),
       Block(0, <<>>, TRUE, FALSE,
             <<Dirent(1, PFS_FILE, "flat_path_table", 40), Dirent(2, PFS_DIR, "uroot", 24),
               Dirent(0, 0, "", 0)>>),
       Block(0, <<>>, FALSE, TRUE, RootDirents(extra)),
       DataBlock, DataBlock, DataBlock >>

\* The stored sizes of the seven blocks: four deflated ones, a deflated and a raw
\* data block, and a deflated one; the map is their running sum from 1024 on.
TreeMap == <<1024, 1124, 1324, 1424, 1524, 1540, 1540 + BlockSize, 1640 + BlockSize>>

PfsImage(magics, map, blocks) == [magics |-> magics, map |-> map, blocks |-> blocks]

NoPfs == PfsImage({}, <<0>>, <<>>)

PfsImages ==
    { PfsImage({}, TreeMap, TreeBlocks(<<>>)),
      PfsImage({2 * BlockSize}, TreeMap, TreeBlocks(<<>>)),
      PfsImage({3 * BlockSize}, TreeMap, TreeBlocks(<<Dirent(UnknownId, 0, "", 24)>>)) }

\* The inode records that lie whole inside a block of 0x10000 bytes.
InodeSlots == BlockSize \div InodeSize

\* The PFS of TreeBlocks with another inode for eboot.bin and another last block.
FileBlocks(node, extra, last) ==
    [TreeBlocks(extra) EXCEPT ![2].inodes[4] = node, ![7] = last]

\* Images that differ in the file they hold: an inode whose size and block count
\* disagree (too many blocks, no block, a size above 32 bits), a last block that
\* does not inflate, a directory with two files of one name, a file of more
\* blocks than the sector map has, a dirent of an inode number that no inode has,
\* a dirent of entsize 0, and an inode block with an inode in every slot.
FileImages ==
    { PfsImage({2 * BlockSize}, TreeMap, FileBlocks(Inode(33060, 100, 2, 5), <<>>, DataBlock)),
      PfsImage({2 * BlockSize}, TreeMap, FileBlocks(Inode(33060, 100, 0, 5), <<>>, DataBlock)),
      PfsImage({2 * BlockSize}, TreeMap,
               FileBlocks(Inode(33060, U32Mod + 100, 1, 5), <<>>, DataBlock)),
      PfsImage({2 * BlockSize}, TreeMap,
               FileBlocks(Inode(33060, BlockSize + 100, 2, 5), <<>>, CorruptBlock)),
      PfsImage({2 * BlockSize}, TreeMap,
               FileBlocks(Inode(33060, BlockSize + 100, 2, 5),
                          <<Dirent(1, PFS_FILE, "eboot.bin", 32)>>, DataBlock)),
      PfsImage({2 * BlockSize}, TreeMap,
               FileBlocks(Inode(33060, 2 * BlockSize + 100, 3, 5), <<>>, DataBlock)),
      PfsImage({2 * BlockSize}, TreeMap,
               FileBlocks(Inode(33060, BlockSize + 100, 2, 5),
                          <<Dirent(9, PFS_FILE, "none.bin", 32)>>, DataBlock)),
      PfsImage({2 * BlockSize}, TreeMap,
               FileBlocks(Inode(33060, BlockSize + 100, 2, 5),
                          <<Dirent(1, PFS_FILE, "loop.bin", 0)>>, DataBlock)),
      PfsImage({2 * BlockSize}, TreeMap,
               [TreeBlocks(<<>>) EXCEPT ![2].inodes =
                   [k \in 1..InodeSlots |-> IF k <= 4 THEN @[k]
                                            ELSE Inode(33060, 16, 1, 4)]]) }

File(exists, header, table, pfs) ==
    [exists |-> exists, size |-> Layout.size, header |-> header,
     tablePos |-> Layout.tablePos, table |-> table, titleId |-> "CUSA00001", pfs |-> pfs]

\* Files that differ in the header only: a missing file, a bad magic, every relation
\* of the three size fields to each other and to the modulus, a table past the end.
HeaderFiles ==
    {File(exists,
          Header(magic, pkg_size, content_offset, content_size, table_offset, 1,
                 Layout.imageAt, 0),
          <<[id |-> ID_PARAM_SFO, offset |-> 4200, size |-> 2]>>, NoPfs) :
        exists \in BOOLEAN, magic \in {PkgMagic, 0},
        pkg_size \in {Layout.size - 1, Layout.size, Layout.size + 1},
        content_offset \in {0, 4096, U64Mod - 1},
        content_size \in {0, 2, Layout.size - 4095, U64Mod - 1},
        table_offset \in {Layout.tablePos, Layout.size + 1}}

\* Well-headed files with every entry table of at most MaxEntries entries, without
\* a PFS image (pfs_cache_size = 0) or with one.
TableFiles ==
    {File(TRUE,
          Header(PkgMagic, Layout.size, 4096, 4096, Layout.tablePos, Len(table),
                 pfs_image_offset, IF pfs = NoPfs THEN 0 ELSE 2 * BlockSize),
          table, pfs) :
        table \in SeqsUpTo(Entries(Layout.size), MaxEntries),
        pfs_image_offset \in {Layout.imageAt, Layout.lateImageAt},
        pfs \in PfsImages \cup {NoPfs}}

\* Well-formed PKGs of one param.sfo entry around the images of FileImages.
PfsFiles ==
    {File(TRUE,
          Header(PkgMagic, Layout.size, 4096, 4096, Layout.tablePos, 1, Layout.imageAt,
                 2 * BlockSize),
          <<[id |-> ID_PARAM_SFO, offset |-> 4200, size |-> 2]>>, pfs) : pfs \in FileImages}

\* The output directory the caller names.
OutDir == Path(TRUE, <<"x", "out">>)

NoWalk == [blk |-> 0, num_blocks |-> 0, ent_size |-> 0, ndinode |-> 0,
           ndinode_counter |-> 0, dinode_reached |-> FALSE, uroot_reached |-> FALSE,
           buf |-> ZeroBlock, head_key |-> NoPfsKey]

\* No output tree of an earlier run is kept.
NoTree == [kept |-> FALSE, dirs |-> {}, disk |-> <<>>]

\* The program as main() starts it: three arguments, one processor, the main()
\* that calls ExtractFiles in a loop.
NoMain == [argc |-> 3, cpu |-> 1, seq |-> TRUE, started |-> FALSE, workers |-> <<>>,
           exit |-> "none"]

\* No call on the HandleTable yet.
NoCall == [op |-> "none", d |-> 0, ret |-> 0]

\* No block read yet.
NoStream == [done |-> FALSE, a |-> 0, image |-> 0, prefix |-> 0, start |-> 0, sector |-> 0]

\* A HandleTable of no slot, and no block read under way.
LibraryIdle == m_files = <<>> /\ call = NoCall /\ stream = NoStream

\* PKG pkg; std::string failreason; and an empty output directory.
Constructed ==
    /\ pc = "idle"
    /\ failreason = ""
    /\ openRet = "none"
    /\ extractRet = "none"
    /\ pkgSize = 0
    /\ pkgheader = ZeroHeader
    /\ pkgEntries = <<>>
    /\ sfo = <<>>
    /\ file_pos = 0
    /\ i = 0
    /\ dk3_ = Underived
    /\ ivKey = NoIv
    /\ imgKey = NoImg
    /\ ekpfsKey = NoImg
    /\ dataKey = NoPfsKey
    /\ tweakKey = NoPfsKey
    /\ extract_path = EmptyPath
    /\ pkgTitleID = ""
    /\ pfsc_offset = 0
    /\ sectorMap = <<>>
    /\ iNodeBuf = <<>>
    /\ fsTable = <<>>
    /\ extractPaths = <<>>
    /\ current_dir = EmptyPath
    /\ walk = NoWalk
    /\ next_file = 0
    /\ dirs = {}
    /\ disk = <<>>

Init ==
    /\ pkg \in HeaderFiles \cup TableFiles \cup PfsFiles
    /\ Constructed
    /\ main = NoMain
    /\ first_tree = NoTree
    /\ LibraryIdle

(***************************************************************************)
(* PKG::Open                                                               *)
(***************************************************************************)
\* What only the PFS part of Extract writes.
pfsVars == <<pfsc_offset, sectorMap, iNodeBuf, fsTable, extractPaths, current_dir, walk>>

RECURSIVE OpenLoop(_, _, _, _, _)
\* The entry loop of Open from table index k at read position pos: the entries
\* pushed so far, the cached param.sfo, and why it stopped ("" when it ran out).
OpenLoop(f, k, pos, entries, sfoBuf) ==
    IF k >= f.header.pkg_table_entry_count
    THEN [entries |-> entries, sfo |-> sfoBuf, reason |-> ""]
    ELSE LET entry == ReadEntry(f, pos)
             next == AfterEntry(f, pos)
             pushed == Append(entries, entry)
         IN  IF GetEntryNameByType(entry.id) = "param.sfo"
             THEN IF ~SeekOk(f.size, entry.offset)
                  THEN [entries |-> pushed, sfo |-> <<>>,
                        reason |-> "Failed to seek to param.sfo offset"]
                  ELSE OpenLoop(f, k + 1, Min(entry.offset + entry.size, f.size), pushed,
                                ReadRaw(f, entry.offset, entry.size))
             ELSE OpenLoop(f, k + 1, next, pushed, sfoBuf)

Open ==
    /\ pc = "idle"
    /\ openRet = "none"
    /\ extractRet = "none"
    /\ IF ~pkg.exists
       THEN /\ openRet' = "false"
            /\ UNCHANGED <<failreason, pkgSize, pkgheader, pkgEntries, sfo, pkgTitleID>>
       ELSE /\ pkgSize' = pkg.size
            /\ pkgheader' = pkg.header
            /\ IF pkg.header.magic # PkgMagic
               THEN /\ openRet' = "false"
                    /\ UNCHANGED <<failreason, pkgEntries, sfo, pkgTitleID>>
               ELSE IF ~SeekOk(pkg.size, pkg.header.pkg_table_entry_offset)
               THEN /\ openRet' = "false"
                    /\ failreason' = "Failed to seek to PKG table entry offset"
                    /\ pkgTitleID' = pkg.titleId
                    /\ UNCHANGED <<pkgEntries, sfo>>
               ELSE LET r == OpenLoop(pkg, 0, pkg.header.pkg_table_entry_offset, <<>>, sfo)
                    IN  /\ pkgEntries' = r.entries
                        /\ pkgTitleID' = pkg.titleId
                        /\ sfo' = r.sfo
                        /\ failreason' = IF r.reason = "" THEN failreason ELSE r.reason
                        /\ openRet' = IF r.reason = "" THEN "true" ELSE "false"
    /\ UNCHANGED callerVars
    /\ UNCHANGED <<pkg, pc, extractRet, file_pos, i, dk3_, ivKey, imgKey, ekpfsKey,
                   dataKey, tweakKey, extract_path, next_file, dirs, disk>>
    /\ UNCHANGED pfsVars

(***************************************************************************)
(* PKG::Extract: the header checks                                         *)
(***************************************************************************)
\* A size check that lets a header of one byte too many pass.
SizeDiffersByTwo(h, size) == h.pkg_size > size + 1

\* pkgheader.pkg_size > pkgSize
SizeDiffers(h, size) == h.pkg_size > size

\* pkgheader.pkg_content_size + pkgheader.pkg_content_offset, a sum of two u64.
ContentEnd(h) == (h.pkg_content_size + h.pkg_content_offset) % U64Mod

\* (pkgheader.pkg_content_size + pkgheader.pkg_content_offset) > pkgheader.pkg_size
ContentTooBig(h) == ContentEnd(h) > h.pkg_size

\* Extract returns false, with the given failreason.
ExtractFails(reason) ==
    /\ failreason' = reason
    /\ extractRet' = "false"
    /\ pc' = "idle"

\* Extract from its entry to the seek to the entry table.
ExtractBegin ==
    /\ pc = "idle"
    /\ extractRet = "none"
    /\ openRet \in {"none", "true"}
    /\ extract_path' = OutDir
    /\ IF ~pkg.exists
       THEN /\ ExtractFails(failreason)
            /\ UNCHANGED <<pkgSize, pkgheader, file_pos, i>>
       ELSE /\ pkgSize' = pkg.size
            /\ pkgheader' = pkg.header
            /\ IF pkg.header.magic # PkgMagic
               THEN /\ ExtractFails(failreason)
                    /\ UNCHANGED <<file_pos, i>>
               ELSE IF SizeDiffers(pkg.header, pkg.size)
               THEN /\ ExtractFails("PKG file size is different")
                    /\ UNCHANGED <<file_pos, i>>
               ELSE IF ContentTooBig(pkg.header)
               THEN /\ ExtractFails("Content size is bigger than pkg size")
                    /\ UNCHANGED <<file_pos, i>>
               ELSE IF ~SeekOk(pkg.size, pkg.header.pkg_table_entry_offset)
               THEN /\ ExtractFails("Failed to seek to PKG table entry offset")
                    /\ UNCHANGED <<file_pos, i>>
               ELSE /\ file_pos' = pkg.header.pkg_table_entry_offset
                    /\ i' = 0
                    /\ pc' = "entries"
                    /\ UNCHANGED <<failreason, extractRet>>
    /\ UNCHANGED callerVars
    /\ UNCHANGED <<pkg, openRet, pkgEntries, sfo, dk3_, ivKey, imgKey, ekpfsKey,
                   dataKey, tweakKey, pkgTitleID, next_file, dirs, disk>>
    /\ UNCHANGED pfsVars

(***************************************************************************)
(* PKG::Extract: one iteration of the entry loop                           *)
(***************************************************************************)
\* Where the reads after an unchecked file.Seek(entry.offset) take place.
SeekOrStay(f, offset, pos) == IF SeekOk(f.size, offset) THEN offset ELSE pos

\* The position Extract's file is left at when an entry has been handled.
RestoredPos(currentPos) == currentPos

\* The write of a file of the output tree (IOFile opened for Write, WriteRaw, Close).
WriteFile(d, path, content) == (path :> content) @@ d

\* The final content of sce_sys/<name> for a named entry whose payload was read.
NamedContent(entry, data, dk3) ==
    IF IsNpdrm(entry.id)
    THEN DecryptEntry(IvKeyHASH256(entry, dk3), data)
    ELSE Raw(data)

ExtractEntry ==
    /\ pc = "entries"
    /\ i < pkgheader.pkg_table_entry_count
    /\ LET entry == ReadEntry(pkg, file_pos)
           currentPos == AfterEntry(pkg, file_pos)
           name == GetEntryNameByType(entry.id)
           data == ReadRaw(pkg, entry.offset, entry.size)
           keyPos == SeekOrStay(pkg, entry.offset, currentPos)
           newDk3 == IF entry.id = ID_ENTRY_KEYS THEN keyPos ELSE dk3_
           imageIv == IvKeyHASH256(entry, dk3_)
       IN  IF name = ""
           THEN /\ UNCHANGED <<dk3_, ivKey, imgKey, ekpfsKey>>
                /\ IF ~SeekOk(pkg.size, entry.offset)
                   THEN /\ disk' = WriteFile(disk, SceSysPath(extract_path, to_string(entry.id)), Raw(<<>>))
                        /\ ExtractFails("Failed to seek to PKG entry offset")
                        /\ UNCHANGED <<file_pos, i>>
                   ELSE /\ disk' = WriteFile(disk, SceSysPath(extract_path, to_string(entry.id)), Raw(data))
                        /\ file_pos' = RestoredPos(currentPos)
                        /\ i' = i + 1
                        /\ UNCHANGED <<pc, failreason, extractRet>>
           ELSE /\ dk3_' = newDk3
                /\ imgKey' = IF entry.id = ID_IMAGE_KEY THEN ImgKeyOf(imageIv, keyPos)
                             ELSE imgKey
                /\ ekpfsKey' = IF entry.id = ID_IMAGE_KEY THEN ImgKeyOf(imageIv, keyPos)
                               ELSE ekpfsKey
                /\ IF ~SeekOk(pkg.size, entry.offset)
                   THEN /\ disk' = WriteFile(disk, SceSysPath(extract_path, name), Raw(<<>>))
                        /\ ivKey' = IF entry.id = ID_IMAGE_KEY THEN imageIv ELSE ivKey
                        /\ ExtractFails("Failed to seek to PKG entry offset")
                        /\ UNCHANGED <<file_pos, i>>
                   ELSE /\ disk' = WriteFile(disk, SceSysPath(extract_path, name),
                                             NamedContent(entry, data, newDk3))
                        /\ ivKey' = IF entry.id = ID_IMAGE_KEY THEN imageIv
                                    ELSE IF IsNpdrm(entry.id)
                                    THEN IvKeyHASH256(entry, newDk3)
                                    ELSE ivKey
                        /\ file_pos' = RestoredPos(currentPos)
                        /\ i' = i + 1
                        /\ UNCHANGED <<pc, failreason, extractRet>>
    /\ dirs' = dirs \cup {Join(extract_path, Path(FALSE, <<"sce_sys">>))}
    /\ UNCHANGED callerVars
    /\ UNCHANGED <<pkg, openRet, pkgSize, pkgheader, pkgEntries, sfo, dataKey, tweakKey,
                   extract_path, pkgTitleID, next_file>>
    /\ UNCHANGED pfsVars

(***************************************************************************)
(* PKG::Extract: the PFS seed, the keys, the PFS head                      *)
(***************************************************************************)
\* pkgheader.pfs_image_offset + 0x370, a u64.
SeedPos(h) == (h.pfs_image_offset + SeedOffset) % U64Mod

\* const u32 length = pkgheader.pfs_cache_size * 0x2
HeadLength(h) == (h.pfs_cache_size * 2) % U32Mod

RECURSIVE ScanPFSC(_, _, _)
ScanPFSC(magics, size, at) ==
    IF at >= size THEN NotFound
    ELSE IF at \in magics THEN at
    ELSE ScanPFSC(magics, size, at + BlockSize)

\* GetPFSCOffset over a decrypted head of `size` bytes that holds the PFSC magic at
\* the offsets `magics`.
GetPFSCOffset(magics, size) == ScanPFSC(magics, size, FirstPfscOffset)

\* Lines 285-294: the seek to the seed and PfsGenCryptoKey.
ExtractSeed ==
    /\ pc = "entries"
    /\ i >= pkgheader.pkg_table_entry_count
    /\ IF ~SeekOk(pkg.size, SeedPos(pkgheader))
       THEN /\ ExtractFails("Failed to seek to PFS image offset")
            /\ UNCHANGED <<dataKey, tweakKey>>
       ELSE /\ dataKey' = PfsGenCryptoKey(ekpfsKey, SeedPos(pkgheader), "data")
            /\ tweakKey' = PfsGenCryptoKey(ekpfsKey, SeedPos(pkgheader), "tweak")
            /\ pc' = "pfs"
            /\ UNCHANGED <<failreason, extractRet>>
    /\ UNCHANGED callerVars
    /\ UNCHANGED <<pkg, openRet, pkgSize, pkgheader, pkgEntries, sfo, file_pos, i, dk3_,
                   ivKey, imgKey, ekpfsKey, extract_path, pkgTitleID, next_file, dirs, disk>>
    /\ UNCHANGED pfsVars

\* The locals of the block loop when it starts over num_blocks blocks of a head
\* decrypted under `key` (NoPfsKey: no head was decrypted).
StartWalk(num_blocks, key) ==
    [NoWalk EXCEPT !.num_blocks = num_blocks, !.head_key = key]

\* Lines 295-330: the head is read and decrypted, the PFSC found and its sector map
\* loaded.  Without the magic GetPFSCOffset returns -1 and the memcpy that follows
\* reads far outside pfs_decrypted: the process dies, or goes on with a PFSC header
\* of whatever it read (here: one of no blocks).
ExtractPfs ==
    /\ pc = "pfs"
    /\ LET length == HeadLength(pkgheader)
           offset == GetPFSCOffset(pkg.pfs.magics, length)
       IN  \/ /\ length = 0
              /\ walk' = StartWalk(0, NoPfsKey)
              /\ pc' = "walk"
              /\ UNCHANGED <<pfsc_offset, sectorMap>>
           \/ /\ length # 0
              /\ offset # NotFound
              /\ pfsc_offset' = offset
              /\ sectorMap' = pkg.pfs.map
              /\ walk' = StartWalk(Len(pkg.pfs.map) - 1, dataKey)
              /\ pc' = "walk"
           \/ /\ length # 0
              /\ offset = NotFound
              /\ pfsc_offset' = offset
              /\ \/ /\ pc' = "crashed"
                    /\ walk' = StartWalk(0, dataKey)
                    /\ UNCHANGED sectorMap
                 \/ /\ pc' = "walk"
                    /\ walk' = StartWalk(0, dataKey)
                    /\ sectorMap' = <<0>>
    /\ UNCHANGED callerVars
    /\ UNCHANGED <<pkg, failreason, openRet, extractRet, pkgSize, pkgheader, pkgEntries,
                   sfo, file_pos, i, dk3_, ivKey, imgKey, ekpfsKey, dataKey, tweakKey,
                   extract_path, pkgTitleID, iNodeBuf, fsTable, extractPaths, current_dir,
                   next_file, dirs, disk>>

(***************************************************************************)
(* PKG::Extract: one iteration of the block loop (lines 334-449)           *)
(***************************************************************************)
\* extractPaths[ino]: operator[] yields a default path for a missing key.
PathAt(paths, ino) == IF ino \in DOMAIN paths THEN paths[ino] ELSE EmptyPath

\* The string of a path ends with "-UPDATE".
EndsWithUpdate(a) ==
    LET name == FileName(a)
    IN  Len(name) >= 7 /\ SubSeq(name, Len(name) - 6, Len(name)) = "-UPDATE"

\* The folder the uroot step publishes (lines 387-396).
RootFolder(out, title_id) ==
    IF FileName(ParentPath(out)) # title_id /\ ~EndsWithUpdate(out)
    THEN Join(ParentPath(out), Path(FALSE, <<title_id>>))
    ELSE out

\* int occupied_blocks of ndinode inodes.
OccupiedBlocks(ndinode) ==
    ((ndinode * InodeSize) \div BlockSize)
    + (IF (ndinode * InodeSize) % BlockSize # 0 THEN 1 ELSE 0)

RECURSIVE UrootLoop(_, _, _, _)
\* The uroot loop from the k-th dirent of the block: "found" at a dirent of ino 0,
\* "end" past the block, "hang" when a dirent of entsize 0 is read for ever.
UrootLoop(ds, k, counter, ent_size) ==
    IF k > Len(ds)
    THEN [status |-> "end", counter |-> counter, ent_size |-> ent_size]
    ELSE IF ds[k].ino = 0
    THEN [status |-> "found", counter |-> counter, ent_size |-> ds[k].entsize]
    ELSE IF ds[k].entsize = 0
    THEN [status |-> "hang", counter |-> counter + 1, ent_size |-> 0]
    ELSE UrootLoop(ds, k + 1, counter + 1, ds[k].entsize)

\* A dirent loop that leaves the path of the inode out of extractPaths.
DirentStepNoPath(st, d, out, ndinode) ==
    LET counted == d.type = PFS_FILE \/ d.type = PFS_DIR
        counter == IF counted THEN st.counter + 1 ELSE st.counter
    IN  [st EXCEPT
           !.ent_size = d.entsize,
           !.fsTable = Append(@, [name |-> d.name, inode |-> d.ino, type |-> d.type]),
           !.counter = counter,
           !.end_reached = @ \/ (counted /\ counter + 1 = ndinode)]

\* What the dirent loop does with one dirent of ino # 0 (lines 423-442).
DirentStep(st, d, out, ndinode) ==
    LET cur == IF d.type = PFS_CURRENT_DIR THEN PathAt(st.extractPaths, d.ino)
               ELSE st.current_dir
        path == Join(out, Join(cur, Path(FALSE, <<d.name>>)))
        counted == d.type = PFS_FILE \/ d.type = PFS_DIR
        counter == IF counted THEN st.counter + 1 ELSE st.counter
    IN  [st EXCEPT
           !.ent_size = d.entsize,
           !.fsTable = Append(@, [name |-> d.name, inode |-> d.ino, type |-> d.type]),
           !.current_dir = cur,
           !.extractPaths = (d.ino :> path) @@ @,
           !.dirs = IF d.type = PFS_DIR THEN @ \cup {path} ELSE @,
           !.counter = counter,
           !.end_reached = @ \/ (counted /\ counter + 1 = ndinode)]

RECURSIVE DirentLoop(_, _, _, _, _)
\* The dirent loop from the k-th dirent of the block.
DirentLoop(ds, k, st, out, ndinode) ==
    IF k > Len(ds) \/ ds[k].ino = 0 THEN st
    ELSE IF ds[k].entsize = 0
    THEN [DirentStep(st, ds[k], out, ndinode) EXCEPT !.hang = TRUE]
    ELSE DirentLoop(ds, k + 1, DirentStep(st, ds[k], out, ndinode), out, ndinode)

\* The offsets p of the inode loop on a block: for (p = 0; p < 0x10000; p += 0xA8)
\* up to the first record of Mode 0; what lies behind the last whole record is 0.
InodeReads(buf) ==
    {k * InodeSize : k \in 0..Min(Len(buf.inodes), (BlockSize - 1) \div InodeSize)}

\* The memcpy of sizeof(Inode) bytes from one of these offsets leaves the buffer.
InodeOverread(buf) == \E p \in InodeReads(buf) : p + InodeSize > BlockSize

\* The block the loop works on: a stored block of at most 0x10000 bytes is copied or
\* inflated into decompressedData, a larger one leaves the buffer as it was.
LoadBlock(stored, content, buf) == IF Loaded(stored, content) THEN content ELSE buf

ExtractBlock ==
    /\ pc = "walk"
    /\ walk.blk < walk.num_blocks
    /\ LET b == walk.blk
           sectorSize == sectorMap[b + 2] - sectorMap[b + 1]
           buf == LoadBlock(sectorSize, pkg.pfs.blocks[b + 1], walk.buf)
           ndinode == IF b = 0 THEN buf.ndinode ELSE walk.ndinode
           inodes == IF b >= 1 /\ b <= OccupiedBlocks(ndinode) THEN iNodeBuf \o buf.inodes
                     ELSE iNodeBuf
           uroot == walk.uroot_reached \/ buf.flat
           ur == IF uroot THEN UrootLoop(buf.dirents, 1, walk.ndinode_counter, walk.ent_size)
                 ELSE [status |-> "skip", counter |-> walk.ndinode_counter,
                       ent_size |-> walk.ent_size]
           paths == IF ur.status = "found"
                    THEN (ur.counter :> RootFolder(extract_path, pkgTitleID)) @@ extractPaths
                    ELSE extractPaths
           dinode == walk.dinode_reached \/ buf.dots
           st0 == [ent_size |-> ur.ent_size, fsTable |-> fsTable, current_dir |-> current_dir,
                   extractPaths |-> paths, dirs |-> dirs, counter |-> ur.counter,
                   end_reached |-> FALSE, hang |-> FALSE]
           st == IF dinode /\ ur.status # "hang"
                 THEN DirentLoop(buf.dirents, 1, st0, extract_path, ndinode)
                 ELSE st0
           hang == ur.status = "hang" \/ st.hang
       IN  /\ iNodeBuf' = inodes
           /\ fsTable' = st.fsTable
           /\ extractPaths' = st.extractPaths
           /\ current_dir' = st.current_dir
           /\ dirs' = st.dirs
           /\ walk' = [walk EXCEPT !.blk = b + 1, !.ent_size = st.ent_size,
                                   !.ndinode = ndinode, !.ndinode_counter = st.counter,
                                   !.dinode_reached = dinode,
                                   !.uroot_reached = uroot /\ ur.status = "end",
                                   !.buf = buf]
           /\ \/ IF hang
                 THEN /\ pc' = "hang"
                      /\ UNCHANGED extractRet
                 ELSE IF dinode /\ st.end_reached
                 THEN /\ pc' = "idle"
                      /\ extractRet' = "true"
                 ELSE UNCHANGED <<pc, extractRet>>
              \/ /\ b >= 1
                 /\ b <= OccupiedBlocks(ndinode)
                 /\ InodeOverread(buf)
                 /\ pc' = "crashed"
                 /\ UNCHANGED extractRet
    /\ UNCHANGED callerVars
    /\ UNCHANGED <<pkg, failreason, openRet, pkgSize, pkgheader, pkgEntries, sfo, file_pos,
                   i, dk3_, ivKey, imgKey, ekpfsKey, dataKey, tweakKey, extract_path,
                   pkgTitleID, pfsc_offset, sectorMap, next_file, disk>>

\* Line 451: the block loop ran out of blocks.
ExtractReturn ==
    /\ pc = "walk"
    /\ walk.blk >= walk.num_blocks
    /\ pc' = "idle"
    /\ extractRet' = "true"
    /\ UNCHANGED callerVars
    /\ UNCHANGED <<pkg, failreason, openRet, pkgSize, pkgheader, pkgEntries, sfo, file_pos,
                   i, dk3_, ivKey, imgKey, ekpfsKey, dataKey, tweakKey, extract_path,
                   pkgTitleID, next_file, dirs, disk>>
    /\ UNCHANGED pfsVars

(***************************************************************************)
(* PKG::ExtractFiles(index), called for every index of fsTable in turn     *)
(***************************************************************************)
\* const u32 write_size = decompressedData.size() - (size_decompressed - bsize)
WriteSize(nblocks, bsize) == (BlockSize - (nblocks * BlockSize - bsize)) % U32Mod

\* A conversion to int: the value modulo 2^32, taken as a signed number.
ToInt(x) == ((x + U32Mod \div 2) % U32Mod) - U32Mod \div 2

\* sectorMap[k] - sectorMap[k + 1] apart, for indices inside the map.
StoredSize(map, k) == map[k + 2] - map[k + 1]

\* What the j-th round of the block loop writes for a file that starts at sector
\* sector_loc: the logical block decompressedData holds (NotFound: the buffer was
\* left as it was, or the sector map was read outside), how many of its bytes,
\* and the keys it was decrypted under.
FileChunk(map, sector_loc, j, nblocks, bsize, key) ==
    LET k == sector_loc + j
        inside == k >= 0 /\ k + 2 <= Len(map) /\ k + 1 <= Len(pkg.pfs.blocks)
    IN  [block |-> IF inside /\ Loaded(StoredSize(map, k), pkg.pfs.blocks[k + 1])
                   THEN k ELSE NotFound,
         len |-> IF j < nblocks - 1 THEN BlockSize ELSE WriteSize(nblocks, bsize),
         key |-> key]

\* The block loop of ExtractFiles leaves what the language defines: it reads
\* sectorMap outside its bounds, writes more than the 0x10000 bytes of
\* decompressedData, or overflows the int size_decompressed.
FileUndefined(map, sector_loc, nblocks, bsize) ==
    /\ nblocks > 0
    /\ \/ sector_loc < 0
       \/ sector_loc + nblocks >= Len(map)
       \/ WriteSize(nblocks, bsize) > BlockSize
       \/ nblocks * BlockSize >= U32Mod \div 2

\* The first entry of pkgEntries with the given id, as a set of at most one entry.
EntryOfId(entries, id) ==
    {entries[k] : k \in {k \in 1..Len(entries) :
                            /\ entries[k].id = id
                            /\ \A m \in 1..(k - 1) : entries[m].id # id}}

\* extract_path / "entry_0x<hex inode>.bin"
UnknownPath(out, ino) == Join(out, Path(FALSE, <<"entry_0x" \o ToHex(ino) \o ".bin">>))

\* extractPaths after extractPaths[ino] was evaluated: a missing key is inserted.
Touched(paths, ino) == IF ino \in DOMAIN paths THEN paths ELSE (ino :> EmptyPath) @@ paths

\* The output files after ExtractFiles(index) ran to its end on the files d.
Written(d, index) ==
    LET inode_number == fsTable[index + 1].inode
        path == PathAt(extractPaths, inode_number)
    IN  IF fsTable[index + 1].type = PFS_FILE
        THEN IF inode_number < 0 \/ inode_number >= Len(iNodeBuf)
             THEN WriteFile(d, path, Chunks(<<>>))
             ELSE LET node == iNodeBuf[inode_number + 1]
                  IN  WriteFile(d, path,
                         Chunks([j \in 1..ToInt(node.Blocks) |->
                                   FileChunk(sectorMap, ToInt(node.loc), j - 1,
                                             ToInt(node.Blocks), ToInt(node.Size), dataKey)]))
        ELSE IF fsTable[index + 1].name = "" /\ EntryOfId(pkgEntries, inode_number) # {}
        THEN LET entry == CHOOSE e \in EntryOfId(pkgEntries, inode_number) : TRUE
             IN  WriteFile(d, UnknownPath(extract_path, inode_number),
                           Raw(ReadRaw(pkg, SeekOrStay(pkg, entry.offset, 0), entry.size)))
        ELSE d

\* ExtractFiles(index) reads iNodeBuf past its end or its block loop leaves what
\* the language defines.
Undefined(index) ==
    LET inode_number == fsTable[index + 1].inode
    IN  /\ fsTable[index + 1].type = PFS_FILE
        /\ IF inode_number < 0 \/ inode_number >= Len(iNodeBuf) THEN TRUE
           ELSE LET node == iNodeBuf[inode_number + 1]
                IN  FileUndefined(sectorMap, ToInt(node.loc), ToInt(node.Blocks),
                                  ToInt(node.Size))

\* The body of ExtractFiles(index): what it does to the output tree, to
\* extractPaths and, when it dies, to the process.
ExtractFilesAt(index) ==
    LET inode_number == fsTable[index + 1].inode
        inode_type == fsTable[index + 1].type
    IN  /\ extractPaths' = IF inode_type = PFS_FILE THEN Touched(extractPaths, inode_number)
                           ELSE extractPaths
        /\ dirs' = IF inode_type = PFS_FILE
                   THEN dirs \cup {ParentPath(PathAt(extractPaths, inode_number))}
                   ELSE IF fsTable[index + 1].name = ""
                   THEN dirs \cup {ParentPath(UnknownPath(extract_path, inode_number))}
                   ELSE dirs
        /\ \/ /\ disk' = Written(disk, index)
              /\ UNCHANGED pc
           \/ /\ Undefined(index)
              /\ pc' = "crashed"
              /\ UNCHANGED disk

\* for (u32 i = 0; i < pkg.GetNumberOfFiles(); ++i) pkg.ExtractFiles(i);
ExtractFiles ==
    /\ pc = "idle"
    /\ extractRet = "true"
    /\ next_file < Len(fsTable)
    /\ ExtractFilesAt(next_file)
    /\ next_file' = next_file + 1
    /\ UNCHANGED callerVars
    /\ UNCHANGED <<pkg, failreason, openRet, extractRet, pkgSize, pkgheader, pkgEntries, sfo,
                   file_pos, i, dk3_, ivKey, imgKey, ekpfsKey, dataKey, tweakKey,
                   extract_path, pkgTitleID>>
    /\ UNCHANGED <<pfsc_offset, sectorMap, iNodeBuf, fsTable, current_dir, walk>>

Next ==
    \/ Open
    \/ ExtractBegin
    \/ ExtractEntry
    \/ ExtractSeed
    \/ ExtractPfs
    \/ ExtractBlock
    \/ ExtractReturn
    \/ ExtractFiles

Spec == Init /\ [][Next]_vars

(***************************************************************************)
(* main(): the command-line program, in its two versions                   *)
(***************************************************************************)
MaxCpu == 9         \* largest modelled std::thread::hardware_concurrency()
MaxThreads == 8     \* std::min<size_t>(8, ...)

ParamSfoEntry == [id |-> ID_PARAM_SFO, offset |-> 4200, size |-> 2]

\* The files the program is run on: those of PfsFiles, a PKG with an entry and a
\* dirent of no known name, one without PFS, one of a bad magic, one whose header
\* claims more bytes than the file has, and a path with no file.
MainFiles ==
    PfsFiles \cup
    { File(TRUE,
           Header(PkgMagic, Layout.size, 4096, 4096, Layout.tablePos, 2, Layout.imageAt,
                  2 * BlockSize),
           <<ParamSfoEntry, [id |-> UnknownId, offset |-> 4300, size |-> 1]>>,
           PfsImage({3 * BlockSize}, TreeMap, TreeBlocks(<<Dirent(UnknownId, 0, "", 24)>>))),
      File(TRUE,
           Header(PkgMagic, Layout.size, 4096, 4096, Layout.tablePos, 1, Layout.imageAt, 0),
           <<ParamSfoEntry>>, NoPfs),
      File(TRUE,
           Header(0, Layout.size, 4096, 4096, Layout.tablePos, 1, Layout.imageAt, 0),
           <<ParamSfoEntry>>, NoPfs),
      File(TRUE,
           Header(PkgMagic, Layout.size + 1, 4096, 4096, Layout.tablePos, 1, Layout.imageAt, 0),
           <<ParamSfoEntry>>, NoPfs),
      File(FALSE,
           Header(PkgMagic, Layout.size, 4096, 4096, Layout.tablePos, 1, Layout.imageAt, 0),
           <<ParamSfoEntry>>, NoPfs) }

InitMain ==
    /\ pkg \in MainFiles
    /\ Constructed
    /\ main \in {[NoMain EXCEPT !.argc = a, !.cpu = c, !.seq = v] :
                    a \in {2, 3}, c \in 0..MaxCpu, v \in BOOLEAN}
    /\ first_tree = NoTree
    /\ LibraryIdle

\* What no step of main() but the named ones changes.
pkgVars == <<pkg, failreason, openRet, extractRet, pkgSize, pkgheader, pkgEntries, sfo,
             file_pos, i, dk3_, ivKey, imgKey, ekpfsKey, dataKey, tweakKey, extract_path,
             pkgTitleID, pfsc_offset, sectorMap, iNodeBuf, fsTable, current_dir, walk>>

\* A main() that goes on after Extract returned false.
MainFailedBeforeExtract == main.argc < 3 \/ openRet = "false"

\* if (argc < 3), if (!pkg.Open(...)), if (!pkg.Extract(...)): return 1
MainFailed == main.argc < 3 \/ openRet = "false" \/ extractRet = "false"

\* main() has come past its call of Extract.
PastExtract == extractRet # "none" /\ ~MainFailed

MainReturn1 ==
    /\ main.exit = "none"
    /\ pc = "idle"
    /\ MainFailed
    /\ main' = [main EXCEPT !.exit = "1"]
    /\ UNCHANGED <<pkgVars, pc, extractPaths, next_file, dirs, disk, first_tree>>
    /\ UNCHANGED libVars

MainOpen ==
    /\ main.exit = "none"
    /\ ~MainFailed
    /\ Open

MainExtract ==
    /\ main.exit = "none"
    /\ openRet # "none"
    /\ ~MainFailed
    /\ ExtractBegin

\* The loop of the second main() over ExtractFiles(i).
MainExtractFiles ==
    /\ main.exit = "none"
    /\ main.seq
    /\ pc = "idle"
    /\ PastExtract
    /\ next_file < Len(fsTable)
    /\ ExtractFilesAt(next_file)
    /\ next_file' = next_file + 1
    /\ UNCHANGED <<pkgVars, main, first_tree>>
    /\ UNCHANGED libVars

\* The loop has run out: return 0.
MainLoopDone ==
    /\ main.exit = "none"
    /\ main.seq
    /\ pc = "idle"
    /\ PastExtract
    /\ next_file >= Len(fsTable)
    /\ main' = [main EXCEPT !.exit = "0"]
    /\ UNCHANGED <<pkgVars, pc, extractPaths, next_file, dirs, disk, first_tree>>
    /\ UNCHANGED libVars

\* const size_t max_threads = std::min<size_t>(8, std::thread::hardware_concurrency())
MaxWorkers(cpu) == Min(MaxThreads, cpu)

\* size_t batch = (num_files + max_threads - 1) / max_threads
Batch(num_files, max_threads) == (num_files + max_threads - 1) \div max_threads

\* start and end of thread t, and the index it works on next.
Shard(t, batch, num_files) ==
    [start |-> t * batch, next |-> t * batch, end |-> Min(num_files, t * batch + batch)]

\* if (start < end) threads.emplace_back(extract_worker, start, end)
NonEmpty(w) == w.start < w.end

\* The threads the loop over t < max_threads starts.
Shards(num_files, max_threads, batch) ==
    SelectSeq([t \in 1..max_threads |-> Shard(t - 1, batch, num_files)], NonEmpty)

\* ExtractAllFilesWithProgress up to the start of its threads.  With no processor
\* reported max_threads is 0 and batch a division by zero: the process dies, or
\* the division yields 0 and no thread is started.
StartWorkers ==
    /\ main.exit = "none"
    /\ ~main.seq
    /\ ~main.started
    /\ pc = "idle"
    /\ PastExtract
    /\ LET num_files == Len(fsTable)
           max_threads == MaxWorkers(main.cpu)
       IN  IF max_threads = 0
           THEN /\ main' = [main EXCEPT !.started = TRUE]
                /\ pc' \in {"crashed", "idle"}
           ELSE /\ main' = [main EXCEPT !.started = TRUE,
                                        !.workers = Shards(num_files, max_threads,
                                                           Batch(num_files, max_threads))]
                /\ UNCHANGED pc
    /\ UNCHANGED <<pkgVars, extractPaths, next_file, dirs, disk, first_tree>>
    /\ UNCHANGED libVars

\* One round of extract_worker in thread t: ExtractFiles(i) for its next index.
Worker(t) ==
    /\ main.started
    /\ main.exit = "none"
    /\ pc = "idle"
    /\ t \in DOMAIN main.workers
    /\ main.workers[t].next < main.workers[t].end
    /\ ExtractFilesAt(main.workers[t].next)
    /\ main' = [main EXCEPT !.workers[t].next = @ + 1]
    /\ UNCHANGED <<pkgVars, next_file, first_tree>>
    /\ UNCHANGED libVars

\* Every thread has run through its range.
AllJoined == \A t \in DOMAIN main.workers : main.workers[t].next >= main.workers[t].end

\* for (auto& th : threads) th.join(); ... return 0
MainJoin ==
    /\ main.exit = "none"
    /\ main.started
    /\ pc = "idle"
    /\ AllJoined
    /\ main' = [main EXCEPT !.exit = "0"]
    /\ UNCHANGED <<pkgVars, pc, extractPaths, next_file, dirs, disk, first_tree>>
    /\ UNCHANGED libVars

NextMain ==
    \/ MainReturn1
    \/ MainOpen
    \/ MainExtract
    \/ ExtractEntry
    \/ ExtractSeed
    \/ ExtractPfs
    \/ ExtractBlock
    \/ ExtractReturn
    \/ MainExtractFiles
    \/ MainLoopDone
    \/ StartWorkers
    \/ \E t \in 1..MaxThreads : Worker(t)
    \/ MainJoin

SpecMain == InitMain /\ [][NextMain]_vars

(***************************************************************************)
(* Extract and the file extraction, run twice on one PKG object            *)
(***************************************************************************)
\* A run has come to its end: Extract returned false, or it returned true and
\* ExtractFiles was called for every index of the file table.
RunEnded ==
    /\ pc = "idle"
    /\ \/ extractRet = "false"
       \/ extractRet = "true" /\ next_file >= Len(fsTable)

\* The caller keeps the output tree of the first run, empties the directory and
\* calls Extract on the same object again: the members of the PKG stay as the
\* first run left them.
Rerun ==
    /\ ~first_tree.kept
    /\ RunEnded
    /\ first_tree' = [kept |-> TRUE, dirs |-> dirs, disk |-> disk]
    /\ dirs' = {}
    /\ disk' = <<>>
    /\ extractRet' = "none"
    /\ next_file' = 0
    /\ UNCHANGED <<pkg, pc, failreason, openRet, pkgSize, pkgheader, pkgEntries, sfo,
                   file_pos, i, dk3_, ivKey, imgKey, ekpfsKey, dataKey, tweakKey,
                   extract_path, pkgTitleID, pfsc_offset, sectorMap, iNodeBuf, fsTable,
                   extractPaths, current_dir, walk, main>>
    /\ UNCHANGED libVars

\* Open is called, if at all, before the first run.
OpenOnce == ~first_tree.kept /\ Open

NextTwice ==
    \/ OpenOnce
    \/ ExtractBegin
    \/ ExtractEntry
    \/ ExtractSeed
    \/ ExtractPfs
    \/ ExtractBlock
    \/ ExtractReturn
    \/ ExtractFiles
    \/ Rerun

SpecTwice == Init /\ [][NextTwice]_vars

(***************************************************************************)
(* HandleTable of core/file_sys/fs.cpp                                     *)
(***************************************************************************)
MaxHandles == 3     \* largest modelled m_files.size()

\* The addresses new File{} can return; 0 is nullptr.
Addresses == 1..(MaxHandles + 1)

\* The File objects that are allocated: the pointers of the table.
LiveFiles(files) == {files[k] : k \in DOMAIN files} \ {0}

\* A CreateHandle that does not look for a free slot.
FreeSlotAtEnd(files) == Len(files)

\* The loop of CreateHandle: the first index of a nullptr, else m_files.size().
FreeSlot(files) ==
    IF \E k \in DOMAIN files : files[k] = 0
    THEN (CHOOSE k \in DOMAIN files :
             files[k] = 0 /\ \A j \in DOMAIN files : files[j] = 0 => k <= j) - 1
    ELSE Len(files)

\* int HandleTable::CreateHandle(): new File{} is an address that no allocated
\* File has.
CreateHandle ==
    /\ FreeSlot(m_files) < MaxHandles
    /\ \E file \in Addresses \ LiveFiles(m_files) :
          LET index == FreeSlot(m_files)
          IN  /\ m_files' = IF index < Len(m_files)
                            THEN [m_files EXCEPT ![index + 1] = file]
                            ELSE Append(m_files, file)
              /\ call' = [op |-> "CreateHandle", d |-> 0, ret |-> index]
    /\ UNCHANGED <<pkgVars, pc, extractPaths, next_file, dirs, disk, main, first_tree, stream>>

\* void HandleTable::DeleteHandle(int d) for a d that m_files.at(d) accepts.
DeleteHandle(d) ==
    /\ d \in 0..(Len(m_files) - 1)
    /\ m_files' = [m_files EXCEPT ![d + 1] = 0]
    /\ call' = [op |-> "DeleteHandle", d |-> d, ret |-> 0]
    /\ UNCHANGED <<pkgVars, pc, extractPaths, next_file, dirs, disk, main, first_tree, stream>>

\* File* HandleTable::GetFile(int d)
GetFile(files, d) == IF d < 0 \/ d >= Len(files) THEN 0 ELSE files[d + 1]

\* int HandleTable::GetFileDescriptor(File* file): std::find, and 0 when the
\* pointer is in no slot.
GetFileDescriptor(files, file) ==
    IF \E k \in DOMAIN files : files[k] = file
    THEN (CHOOSE k \in DOMAIN files :
             files[k] = file /\ \A j \in DOMAIN files : files[j] = file => k <= j) - 1
    ELSE 0

\* GetFileDescriptor(GetFile(d)) called for a descriptor or a number next to them.
LookupHandle(d) ==
    /\ d \in (-1)..Len(m_files)
    /\ call' = [op |-> "GetFileDescriptor", d |-> d,
                ret |-> GetFileDescriptor(m_files, GetFile(m_files, d))]
    /\ UNCHANGED <<pkgVars, pc, extractPaths, next_file, dirs, disk, main, first_tree,
                   m_files, stream>>

InitHandles ==
    /\ pkg \in PfsFiles
    /\ Constructed
    /\ main = NoMain
    /\ first_tree = NoTree
    /\ LibraryIdle

NextHandles ==
    \/ CreateHandle
    \/ \E d \in 0..MaxHandles : DeleteHandle(d)
    \/ \E d \in (-1)..MaxHandles : LookupHandle(d)

SpecHandles == InitHandles /\ [][NextHandles]_vars

(***************************************************************************)
(* PKG::ExtractFiles: the offsets of one block read (lines 531-541)        *)
(***************************************************************************)
PageSize == 4096    \* 0x1000, the XTS sector

\* The value a u64 holds for a number (a negative int is sign-extended).
ToU64(x) == ((x % U64Mod) + U64Mod) % U64Mod

\* int sectorOffsetMask = (sectorOffset + pfsc_offset) & 0xFFFFF000
SectorOffsetMask(a) == ToInt((a % U32Mod) - (a % PageSize))

\* A previousData of 64 bits.
PreviousDataWide(a) == ToU64(a - SectorOffsetMask(a))

\* int previousData = (sectorOffset + pfsc_offset) - sectorOffsetMask
PreviousData(a) == ToInt(ToU64(a - SectorOffsetMask(a)) % U32Mod)

\* pkgFile.Seek(fileOffset - previousData), fileOffset = pfs_image_offset + a
ReadStart(image, a) == ToU64(ToU64(image + a) - PreviousData(a))

\* u64 currentSector1 = (pfsc_offset + sectorOffset) / 0x1000
CurrentSector(a) == a \div PageSize

\* Values of pfsc_offset + sectorMap[i] around the pages next to 0, to the sign
\* bit of an int, to 32 bits and to the end of a u64.
StreamOffsets ==
    { ToU64(base + d) :
        base \in {0, U32Mod \div 2, U32Mod, U32Mod + U32Mod \div 2, 3 * U32Mod, U64Mod},
        d \in {-PageSize - 1, -PageSize, -1, 0, 1, PageSize - 1, PageSize, PageSize + 1} }

\* Values of pkgheader.pfs_image_offset.
StreamImages == {0, 16 * PageSize, U32Mod, U64Mod - PageSize}

\* One round of the block loop up to its Seek.
StreamBlock ==
    /\ ~stream.done
    /\ \E a \in StreamOffsets, image \in StreamImages :
          stream' = [done |-> TRUE, a |-> a, image |-> image,
                     prefix |-> PreviousData(a),
                     start |-> ReadStart(image, a),
                     sector |-> CurrentSector(a)]
    /\ UNCHANGED <<pkgVars, pc, extractPaths, next_file, dirs, disk, main, first_tree,
                   m_files, call>>

\* The next round.
StreamNext ==
    /\ stream.done
    /\ stream' = NoStream
    /\ UNCHANGED <<pkgVars, pc, extractPaths, next_file, dirs, disk, main, first_tree,
                   m_files, call>>

NextStream ==
    \/ StreamBlock
    \/ StreamNext

SpecStream == InitHandles /\ [][NextStream]_vars

(***************************************************************************)
(* What the claims speak of.                                               *)
(***************************************************************************)
ValidMagic == pkg.exists /\ pkg.header.magic = PkgMagic

\* Extract is inside its entry loop or beyond it.
PastHeader == pc \in {"entries", "pfs", "walk", "hang", "crashed"} \/ extractRet = "true"

\* The k-th entry of the table, the one the k-th round of the entry loop reads.
TableEntry(k) == pkg.table[k]

KnownName(id) == GetEntryNameByType(id) # ""

\* The n bytes the PKG file holds from offset off on; there are such bytes only if
\* the range lies inside the file.
InFile(off, n) == off >= 0 /\ off + n <= pkg.size
PkgBytes(off, n) == [k \in 1..n |-> FileByte(off + k - 1)]

\* The output file at path holds exactly the payload of entry, as it is in the PKG.
HoldsPayload(path, entry) ==
    /\ path \in DOMAIN disk
    /\ InFile(entry.offset, entry.size)
    /\ disk[path] = Raw(PkgBytes(entry.offset, entry.size))

\* The entry loop has just handled the entry at table index i.
JustHandled == pc = "entries" /\ i >= 1 /\ i <= Len(pkg.table)

\* Some entry of id `first` stands in the table with no entry of id `before` ahead.
Precedes(first, before) ==
    \E k \in 1..Len(pkg.table) :
        /\ TableEntry(k).id = first
        /\ \A m \in 1..(k - 1) : TableEntry(m).id # before

HasEntry(id) == \E k \in 1..Len(pkg.table) : TableEntry(k).id = id

\* C1: with a valid magic and a header pkg_size above the size of the file, Extract
\* never reaches the entry table (no entry read, nothing written) and, once it has
\* returned, it has returned false with failreason "PKG file size is different".
C1_SizeDifferent ==
    (ValidMagic /\ pkg.header.pkg_size > pkg.size)
        => /\ ~PastHeader
           /\ i = 0
           /\ disk = <<>>
           /\ extractRet # "none"
                => extractRet = "false" /\ failreason = "PKG file size is different"

\* C1 witness: Extract has returned false on a header of pkg_size = file size + 1.
C1_Witness ==
    /\ ValidMagic
    /\ pkg.header.pkg_size = pkg.size + 1
    /\ extractRet = "false"
    /\ failreason = "PKG file size is different"

\* C2 as stated: whenever the magic is valid, pkg_size <= file size and the sum of
\* pkg_content_offset and pkg_content_size as integers exceeds pkg_size, Extract
\* goes no further than the header and returns false with failreason "Content size
\* is bigger than pkg size".  (Violated: the code adds the fields modulo 2^64.)
C2_ContentOversize ==
    (/\ ValidMagic
     /\ pkg.header.pkg_size <= pkg.size
     /\ pkg.header.pkg_content_offset + pkg.header.pkg_content_size > pkg.header.pkg_size)
        => /\ ~PastHeader
           /\ extractRet # "none"
                => extractRet = "false"
                   /\ failreason = "Content size is bigger than pkg size"

\* C3 as stated: when Open has returned false on a file whose magic is not
\* 0x7F434E54, failreason holds a message.  (Violated: Open only logs.)
C3_OpenBadMagic ==
    (pkg.exists /\ pkg.header.magic # PkgMagic /\ openRet = "false") => failreason # ""

\* C4 as stated: whenever Extract has returned false, failreason is a non-empty
\* message.  (Violated: a file that cannot be opened and a bad magic set none.)
C4_FalseHasReason == extractRet = "false" => failreason # ""

\* C5 as stated: when the entry loop has just handled an entry of a known name that
\* is no NPDRM entry, sce_sys/<name> holds exactly the entry.size bytes the PKG has
\* at entry.offset.  (Violated: a payload that runs past the end of the file.)
C5_KnownEntryBytes ==
    (/\ JustHandled
     /\ KnownName(TableEntry(i).id)
     /\ ~IsNpdrm(TableEntry(i).id))
        => HoldsPayload(SceSysPath(OutDir, GetEntryNameByType(TableEntry(i).id)),
                        TableEntry(i))

\* C6 as stated: when the entry loop has just handled an entry of no known name, the
\* read position is back at the next table entry, and sce_sys/<decimal id> or
\* entry_0x<hex id>.bin holds exactly the entry.size bytes the PKG has at
\* entry.offset.  (Violated: a payload that runs past the end of the file.)
C6_UnknownEntryBytes ==
    (JustHandled /\ ~KnownName(TableEntry(i).id))
        => /\ file_pos = pkg.tablePos + i * EntryStride
           /\ \/ HoldsPayload(SceSysPath(OutDir, to_string(TableEntry(i).id)), TableEntry(i))
              \/ HoldsPayload(UnknownPath(OutDir, TableEntry(i).id), TableEntry(i))

\* C7 as stated: once Open and Extract have returned true and ExtractFiles has run
\* for every index of fsTable, every table entry of no known name is the file
\* entry_0x<hex id>.bin at the output root, with the entry's raw bytes.
\* (Violated: Extract writes sce_sys/<decimal id>, ExtractFiles nothing.)
C7_UnknownAtRoot ==
    (openRet = "true" /\ extractRet = "true" /\ next_file >= Len(fsTable))
        => \A k \in 1..Len(pkg.table) :
              ~KnownName(TableEntry(k).id)
                 => /\ UnknownPath(OutDir, TableEntry(k).id) \in DOMAIN disk
                    /\ disk[UnknownPath(OutDir, TableEntry(k).id)].dec = NoIv
                    /\ disk[UnknownPath(OutDir, TableEntry(k).id)].bytes
                         = ReadRaw(pkg, TableEntry(k).offset, TableEntry(k).size)

\* C8 as stated: when the entry loop has just handled an NPDRM entry, sce_sys/<name>
\* is the decryption of its payload under SHA-256(entry || dk3) with dk3 the key
\* derived from the 0x10 entry, never the raw payload.  (Violated: dk3 is used
\* whether or not a 0x10 entry came before.)
C8_NpdrmDecrypted ==
    (JustHandled /\ IsNpdrm(TableEntry(i).id))
        => LET path == SceSysPath(OutDir, GetEntryNameByType(TableEntry(i).id))
           IN  /\ path \in DOMAIN disk
               /\ disk[path].dec.set
               /\ disk[path].dec.entry = TableEntry(i)
               /\ disk[path].dec.dk3 # Underived

\* C9 as stated: when an entry 0x20 stands in the table before any entry 0x10,
\* Extract does not return true and no ekpfsKey is derived from an underived dk3.
\* (Violated: the 0x20 branch checks nothing.)
C9_ImageKeyFirst ==
    Precedes(ID_IMAGE_KEY, ID_ENTRY_KEYS)
        => /\ extractRet # "true"
           /\ ekpfsKey.set => ekpfsKey.iv.dk3 # Underived

\* C10 as stated: when the table lacks the entry 0x10 or the entry 0x20 and
\* pfs_cache_size is not zero, Extract does not return true, derives no
\* dataKey/tweakKey and decrypts nothing of the PFS image.  (Violated: the keys are
\* generated and the head decrypted from whatever ekpfsKey holds.)
C10_MissingKeys ==
    (/\ ValidMagic
     /\ pkg.header.pfs_cache_size # 0
     /\ ~HasEntry(ID_ENTRY_KEYS) \/ ~HasEntry(ID_IMAGE_KEY))
        => /\ extractRet # "true"
           /\ ~dataKey.set
           /\ ~tweakKey.set
           /\ ~walk.head_key.set

\* C11 as stated: with pfs_cache_size = 0, Extract derives no dataKey/tweakKey, does
\* not fail on the PFS seed, reads no sector map and leaves the inode vector, the
\* file table and extractPaths empty.  (Violated: the seek to the seed and
\* PfsGenCryptoKey come before the test of the length.)
C11_NoPfsNoKeys ==
    (ValidMagic /\ pkg.header.pfs_cache_size = 0)
        => /\ dataKey = NoPfsKey
           /\ tweakKey = NoPfsKey
           /\ failreason # "Failed to seek to PFS image offset"
           /\ sectorMap = <<>>
           /\ iNodeBuf = <<>>
           /\ fsTable = <<>>
           /\ extractPaths = <<>>

\* The decrypted head of the PKG holds no PFSC magic where GetPFSCOffset looks.
NoMagicInHead ==
    /\ HeadLength(pkg.header) # 0
    /\ GetPFSCOffset(pkg.pfs.magics, HeadLength(pkg.header)) = NotFound

\* C12 as stated: when the decrypted head holds no PFSC magic at any offset
\* 0x20000 + k * 0x10000 below its length, Extract does not return true and neither
\* copies from the not-found offset nor walks a PFSC parsed there.  (Violated: the
\* return value -1 is used as an offset.)
C12_NoMagicFails ==
    (ValidMagic /\ NoMagicInHead)
        => /\ extractRet # "true"
           /\ pc \notin {"walk", "crashed"}
           /\ pfsc_offset # NotFound

\* The sequential loop over fsTable has just run ExtractFiles on a PFS_FILE entry
\* whose inode number is an index of the inode vector, and the process lives.
JustExtracted ==
    /\ extractRet = "true"
    /\ pc = "idle"
    /\ next_file >= 1
    /\ fsTable[next_file].type = PFS_FILE
    /\ fsTable[next_file].inode < Len(iNodeBuf)

\* The inode and the output path of that entry.
LastNode == iNodeBuf[fsTable[next_file].inode + 1]
LastPath == PathAt(extractPaths, fsTable[next_file].inode)

RECURSIVE TotalLen(_)
\* The number of bytes a sequence of chunks makes.
TotalLen(chunks) ==
    IF chunks = <<>> THEN 0 ELSE chunks[1].len + TotalLen(SubSeq(chunks, 2, Len(chunks)))

\* C13 as stated: a file ExtractFiles has written for a PFS_FILE entry is as long as
\* the Size field of its inode, whatever Size and Blocks are.  (Violated: Size is
\* cut to an int and the length follows Blocks, not Size.)
C13_FileLength ==
    JustExtracted
        => /\ LastPath \in DOMAIN disk
           /\ TotalLen(disk[LastPath].chunks) = LastNode.Size

\* C20 as stated: the file ExtractFiles has written is the blocks loc, loc + 1, ...,
\* loc + Blocks - 1 of the PFS, each once and in this order, cut to the inode's
\* Size.  (Violated: a block that does not inflate is written as the buffer stood,
\* and the cut follows Blocks, not Size.)
C20_BlocksInOrder ==
    JustExtracted
        => /\ LastPath \in DOMAIN disk
           /\ Len(disk[LastPath].chunks) = LastNode.Blocks
           /\ \A j \in 1..Len(disk[LastPath].chunks) :
                 /\ disk[LastPath].chunks[j].block = LastNode.loc + j - 1
                 /\ disk[LastPath].chunks[j].len =
                       IF j < LastNode.Blocks THEN BlockSize
                       ELSE LastNode.Size - (LastNode.Blocks - 1) * BlockSize

(***************************************************************************)
(* The parallel file extraction and main().                                *)
(***************************************************************************)
\* The threads of a machine that reports its processors have been joined and
\* main() has returned 0.
ParallelDone == ~main.seq /\ main.cpu > 0 /\ main.started /\ main.exit = "0"

\* The inode of the file-table entry of an index, where it is one of iNodeBuf.
HasNode(index) ==
    /\ fsTable[index + 1].type = PFS_FILE
    /\ fsTable[index + 1].inode >= 0
    /\ fsTable[index + 1].inode < Len(iNodeBuf)

\* One of the blocks of the file of an index does not inflate.
FailsInflate(index) ==
    /\ HasNode(index)
    /\ LET node == iNodeBuf[fsTable[index + 1].inode + 1]
       IN  \E j \in 0..(ToInt(node.Blocks) - 1) :
              LET k == ToInt(node.loc) + j
              IN  /\ k >= 0
                  /\ k + 2 <= Len(sectorMap)
                  /\ k + 1 <= Len(pkg.pfs.blocks)
                  /\ StoredSize(sectorMap, k) < BlockSize
                  /\ pkg.pfs.blocks[k + 1] = CorruptBlock

\* C14: a failure while extracting one file is confined to that file: the worker
\* skips the file, so that the output tree has no file of a block that failed to
\* inflate, and every other file of the file table is extracted.
C14_FailedFileSkipped ==
    ParallelDone =>
        \A index \in 0..(Len(fsTable) - 1) :
            HasNode(index) =>
                (PathAt(extractPaths, fsTable[index + 1].inode) \in DOMAIN disk
                    <=> ~FailsInflate(index))

\* The workers whose range holds an index.
Owners(index) ==
    {t \in DOMAIN main.workers : main.workers[t].start <= index /\ index < main.workers[t].end}

\* C15: ExtractAllFilesWithProgress starts at most min(8, cpu_count) workers whose
\* ranges are contiguous, pairwise disjoint and cover exactly [0, num_files), and
\* once they are joined every index was passed to ExtractFiles by its one worker.
C15_ShardsPartition ==
    (~main.seq /\ main.started) =>
        /\ Len(main.workers) <= Min(MaxThreads, main.cpu)
        /\ \A index \in 0..(Len(fsTable) - 1) : Cardinality(Owners(index)) = 1
        /\ \A t \in DOMAIN main.workers :
              /\ main.workers[t].start < main.workers[t].end
              /\ main.workers[t].end <= Len(fsTable)
              /\ main.workers[t].start =
                    (IF t = 1 THEN 0 ELSE main.workers[t - 1].end)
              /\ main.exit = "0" => main.workers[t].next = main.workers[t].end

RECURSIVE InOrder(_, _)
\* The output files after ExtractFiles(0), ..., ExtractFiles(n - 1) in this order
\* on the files d.
InOrder(d, n) == IF n = 0 THEN d ELSE Written(InOrder(d, n - 1), n - 1)

\* C17: the output tree that the joined workers leave is, for every interleaving,
\* the one that ExtractFiles called for 0..num_files-1 in this order leaves (each
\* call overwrites its file whole, so the calls in order rewrite the tree to
\* their own result).
C17_OrderIndependent == ParallelDone => disk = InOrder(disk, Len(fsTable))

\* File extraction has run to its end.
FilesFinished ==
    /\ pc = "idle"
    /\ IF main.seq THEN next_file >= Len(fsTable)
       ELSE /\ main.started
            /\ \A t \in DOMAIN main.workers : main.workers[t].next = main.workers[t].end

\* File extraction has begun.
FilesBegun == main.started \/ next_file > 0

\* C18: main() runs Open, then Extract, then file extraction: it returns 1, and
\* nothing else, with fewer than two arguments or when Open or Extract returned
\* false, without a step of file extraction; it returns 0 only after both
\* returned true and file extraction has finished.
C18_ExitOrder ==
    /\ openRet # "none" => main.argc >= 3
    /\ extractRet # "none" => openRet = "true"
    /\ FilesBegun => extractRet = "true"
    /\ (main.argc < 3 \/ openRet = "false" \/ extractRet = "false") =>
          (~FilesBegun /\ main.exit \in {"none", "1"})
    /\ main.exit = "1" => (main.argc < 3 \/ openRet = "false" \/ extractRet = "false")
    /\ main.exit = "0" =>
          (main.argc >= 3 /\ openRet = "true" /\ extractRet = "true" /\ FilesFinished)

\* main() has returned 0 after the extraction of a file table of several files.
C18_Witness ==
    /\ main.exit = "0"
    /\ Len(fsTable) > 1
    /\ \E p \in DOMAIN disk : p \in {PathAt(extractPaths, fsTable[k].inode) : k \in DOMAIN fsTable}

\* main() has returned 1 after Extract returned false.
C18_FailureWitness == main.exit = "1" /\ extractRet = "false"

\* C19: the extraction of one PKG run twice on one PKG object, each time into an
\* empty directory, leaves the same output tree both times: the same directories
\* and the same files of the same bytes.
C19_SecondRunSame ==
    (first_tree.kept /\ RunEnded) => (dirs = first_tree.dirs /\ disk = first_tree.disk)

(***************************************************************************)
(* The HandleTable.                                                        *)
(***************************************************************************)
\* The descriptors of the table that hold a File.
LiveHandles == {d \in 0..(Len(m_files) - 1) : m_files[d + 1] # 0}

\* No File is in two slots, and the descriptor of the File of d is d.
HandlesDistinct ==
    /\ \A d, e \in LiveHandles : m_files[d + 1] = m_files[e + 1] => d = e
    /\ \A d \in LiveHandles : GetFileDescriptor(m_files, GetFile(m_files, d)) = d

\* A step put a File into slot index, the lowest free one or a new last one, and
\* returned index.
HandleCreated(index) ==
    /\ call'.op = "CreateHandle"
    /\ call'.ret = index
    /\ \A k \in 1..index : m_files[k] # 0
    /\ IF index < Len(m_files)
       THEN m_files[index + 1] = 0 /\ Len(m_files') = Len(m_files)
       ELSE Len(m_files') = Len(m_files) + 1
    /\ m_files'[index + 1] # 0
    /\ \A k \in DOMAIN m_files \ {index + 1} : m_files'[k] = m_files[k]

\* A step freed slot d and nothing else.
HandleDeleted(d) ==
    /\ call'.op = "DeleteHandle"
    /\ call'.d = d
    /\ Len(m_files') = Len(m_files)
    /\ m_files'[d + 1] = 0
    /\ \A k \in DOMAIN m_files \ {d + 1} : m_files'[k] = m_files[k]

\* C30: after any calls of CreateHandle and DeleteHandle, CreateHandle returns the
\* lowest index of a free slot, or the table length when none is free, so that no
\* two live handles share a descriptor or a File; DeleteHandle(d) frees slot d
\* only and changes neither the length nor another slot; and
\* GetFileDescriptor(GetFile(d)) = d for every live d.
C30_HandleTable ==
    /\ []HandlesDistinct
    /\ [][m_files' # m_files =>
             \/ \E index \in 0..Len(m_files) : HandleCreated(index)
             \/ \E d \in LiveHandles : HandleDeleted(d)]_vars

\* CreateHandle has just filled a freed slot below two live ones.
C30_Witness ==
    /\ call.op = "CreateHandle"
    /\ call.ret = 0
    /\ Len(m_files) = MaxHandles
    /\ Cardinality(LiveHandles) = MaxHandles

(***************************************************************************)
(* The offsets of a block read.                                            *)
(***************************************************************************)
\* C26: for every 64-bit a = pfsc_offset + sectorMap[i], also with the sign bit of
\* an int set or above 32 bits, the prefix is a mod 0x1000, the read starts at
\* pfs_image_offset + a - prefix, and that start is pfs_image_offset + 0x1000 * s
\* for the sector index s = a / 0x1000 that the XTS decryptor gets.
C26_MaskArithmetic ==
    stream.done =>
        /\ stream.prefix = stream.a % PageSize
        /\ stream.sector * PageSize + stream.prefix = stream.a
        /\ stream.start = (stream.image + stream.a - stream.prefix) % U64Mod
        /\ stream.start = (stream.image + PageSize * stream.sector) % U64Mod

\* A block read at an offset above 32 bits whose low word has the sign bit of an
\* int set, not at the start of a page.
C26_Witness ==
    /\ stream.done
    /\ stream.a >= U32Mod
    /\ stream.a % U32Mod >= U32Mod \div 2
    /\ stream.prefix > 0

(***************************************************************************)
(* The end of ExtractAllFilesWithProgress.                                 *)
(***************************************************************************)
\* The file-table indices for which some worker has called ExtractFiles.
FilesDone ==
    {index \in 0..(Len(fsTable) - 1) :
        \E t \in DOMAIN main.workers :
            main.workers[t].start <= index /\ index < main.workers[t].next}

\* C29: ExtractAllFilesWithProgress comes to its end for every num_files and every
\* hardware_concurrency(), 0 too: the process lives through the start of the
\* workers, and when the function has returned files_done equals num_files.
C29_AllFilesDone ==
    (~main.seq /\ main.started) =>
        /\ FilesDone = {} => pc = "idle"
        /\ main.exit = "0" => Cardinality(FilesDone) = Len(fsTable)

(***************************************************************************)
(* The walk of the PFS and the reads of ExtractFiles.                      *)
(***************************************************************************)
\* The inode of a file-table index has its blocks inside the sector map.
BlocksInMap(index) ==
    IF HasNode(index)
    THEN LET node == iNodeBuf[fsTable[index + 1].inode + 1]
         IN  /\ ToInt(node.loc) >= 0
             /\ ToInt(node.Blocks) >= 0
             /\ ToInt(node.loc) + ToInt(node.Blocks) <= Len(sectorMap) - 1
    ELSE FALSE

\* C21: ExtractFiles reads the sector map at indices of [0, num_blocks] only: a
\* file-table entry whose inode number is no index of the inode vector, or whose
\* inode has loc + blocks > num_blocks, is not extracted, and the process does not
\* read out of range for it.
C21_SectorMapInRange ==
    \A index \in 0..(next_file - 1) :
        (fsTable[index + 1].type = PFS_FILE /\ ~BlocksInMap(index)) =>
            /\ pc # "crashed"
            /\ PathAt(extractPaths, fsTable[index + 1].inode) \notin DOMAIN disk

\* C22: the dirent loops of Extract come to an end on every block: a dirent of
\* ino # 0 with an entsize below 24 is refused and never read again and again.
C22_DirentLoopEnds == pc # "hang"

\* C23: the walk ends as soon as ndinode_counter + 1 = ndinode: when Extract has
\* returned from a walk that counted that far, the counter stands at ndinode - 1
\* and the last entry of the file table is the file or directory counted last.
C23_StopsAtCount ==
    (pc = "idle" /\ extractRet = "true" /\ walk.dinode_reached
        /\ walk.ndinode_counter + 1 >= walk.ndinode) =>
        /\ walk.ndinode_counter + 1 = walk.ndinode
        /\ fsTable # <<>>
        /\ fsTable[Len(fsTable)].type \in {PFS_FILE, PFS_DIR}

\* The block the walk works on next is a directory block that opens with '.'.
AtCurrentDir ==
    /\ pc = "walk"
    /\ walk.blk < walk.num_blocks
    /\ ~walk.uroot_reached
    /\ LET b == walk.blk
           buf == LoadBlock(sectorMap[b + 2] - sectorMap[b + 1], pkg.pfs.blocks[b + 1],
                            walk.buf)
       IN  /\ ~buf.flat
           /\ walk.dinode_reached \/ buf.dots
           /\ buf.dirents[1].type = PFS_CURRENT_DIR
           /\ buf.dirents[1].ino # 0

\* What the dirent loop makes of the first dirent of that block.
AfterCurrentDir ==
    LET b == walk.blk
        buf == LoadBlock(sectorMap[b + 2] - sectorMap[b + 1], pkg.pfs.blocks[b + 1],
                         walk.buf)
    IN  DirentStep([ent_size |-> walk.ent_size, fsTable |-> fsTable,
                    current_dir |-> current_dir, extractPaths |-> extractPaths,
                    dirs |-> dirs, counter |-> walk.ndinode_counter,
                    end_reached |-> FALSE, hang |-> FALSE],
                   buf.dirents[1], extract_path, walk.ndinode)

\* C24: for a dirent of type PFS_CURRENT_DIR Extract takes current_dir from
\* extractPaths[ino] and leaves extractPaths[ino] as it was.
C24_CurrentDirFrame ==
    AtCurrentDir =>
        LET ino == pkg.pfs.blocks[walk.blk + 1].dirents[1].ino
        IN  /\ AfterCurrentDir.current_dir = PathAt(extractPaths, ino)
            /\ PathAt(AfterCurrentDir.extractPaths, ino) = PathAt(extractPaths, ino)

\* C25: after Extract every inode number of a dirent that was processed has its
\* entry in extractPaths, and no two inode numbers have the same host path.
C25_PathsInjective ==
    (pc = "idle" /\ extractRet = "true") =>
        /\ \A k \in DOMAIN fsTable : fsTable[k].inode \in DOMAIN extractPaths
        /\ \A m, n \in DOMAIN extractPaths :
              extractPaths[m] = extractPaths[n] => m = n

\* C27: a block stored as 0x10000 bytes is copied and one stored as fewer bytes is
\* inflated, in Extract and in ExtractFiles, so that the block that is parsed or
\* written always comes from the stored bytes of that block and never from a block
\* handled before it.
C27_OwnBlock ==
    /\ (pc \in {"walk", "idle"} /\ walk.blk > 0) => walk.buf = pkg.pfs.blocks[walk.blk]
    /\ (JustExtracted /\ BlocksInMap(next_file - 1) /\ LastPath \in DOMAIN disk) =>
          \A j \in DOMAIN disk[LastPath].chunks :
              disk[LastPath].chunks[j].block = LastNode.loc + j - 1

\* C28: every inode record of 0xA8 bytes that Extract copies out of an inode block
\* lies whole inside the buffer of 0x10000 bytes, also when every slot of the
\* block holds an inode of Mode # 0.
C28_InodeInBuffer ==
    (walk.blk >= 2 /\ walk.blk - 1 <= OccupiedBlocks(walk.ndinode)) =>
        \A p \in InodeReads(walk.buf) : p >= 0 /\ p + InodeSize <= BlockSize

====
